---- MODULE Spec2Model ----
(***************************************************************************)
(* Model of Material_Takeoff_With_Layer.py: a Dynamo/Revit script that     *)
(* resolves the types of the selected elements, walks each distinct type's *)
(* compound structure and collects one record per layer whose material     *)
(* resolves.  The script is one sequential pass; the model keeps the       *)
(* program counter, the script's variables and the host model it reads.    *)
(***************************************************************************)
EXTENDS Integers, Sequences, FiniteSets, TLC

\* ---------------------------------------------------------------- bounds
MaxSel == 3        \* longest input selection explored
MaxLayers == 2     \* longest compound structure explored
MaxSelTypes == 2   \* longest selection in the type-focused specifications

\* ------------------------------------------------------------ host model
\* Element types known to the document.
Types == {"T1", "T2"}

\* What doc.GetElement hands back for a type: ty is the type, obj the
\* identity of the object.  The script compares these objects with Python's
\* "in", which for objects without __eq__ is a comparison of identity.
Wrapper(ty, obj) == [ty |-> ty, obj |-> obj]

\* doc.GetElement found nothing.
NoType == Wrapper("None", 0)

\* Whether doc.GetElement hands back the same object each time it is asked
\* for one id, or a fresh object on every call: the host decides.
WrapStates == {"same", "fresh"}

\* ElementId.InvalidElementId: the id whose IsNull is true.
InvalidElementId == -1

\* The type a type id names in the document: ids 1 and 2 name the two
\* types, any other id names nothing.
HostType(id) ==
    CASE id = 1 -> "T1"
      [] id = 2 -> "T2"
      [] OTHER  -> "None"

\* doc.GetElement(type_id) of line 81, as the n-th lookup of the run.
DocGetElement(wrap, id, n) ==
    IF HostType(id) = "None" THEN NoType
    ELSE Wrapper(HostType(id), IF wrap = "fresh" THEN n ELSE 0)

\* A selected element, by what element.GetTypeId() does on it: raise,
\* return None, or return an id (possibly the invalid id or a dangling one).
Elements ==
    {[res |-> "raises", id |-> 0], [res |-> "none", id |-> 0]}
    \cup {[res |-> "id", id |-> n] : n \in {InvalidElementId, 1, 2, 3}}

\* Elements whose type lookup succeeds.
TypedElements == {e \in Elements : e.res = "id" /\ HostType(e.id) # "None"}

\* A parameter of a type as element.get_Parameter sees it.
Param(st, val) == [st |-> st, val |-> val]
ParamStates(vals) ==
    {Param("absent", ""), Param("novalue", ""), Param("raises", "")}
    \cup {Param("value", v) : v \in vals}

\* element_type.Category: None, a category with a name, or a raising read.
CategoryStates(vals) ==
    {Param("absent", ""), Param("raises", "")} \cup {Param("value", v) : v \in vals}

\* One layer of a compound structure.  mat is what line 112 does: the lookup
\* doc.GetElement(layer.MaterialId) finds a material, finds none, or raises.
\* nm is what reading material.Name at line 118 does on a found material:
\* it gives name, or raises.
Layer(mat, nm, name) == [mat |-> mat, nm |-> nm, name |-> name]
FoundLayers == {Layer("found", "ok", "Concrete")}
LayerStates ==
    FoundLayers
    \cup {Layer("found", "raises", ""), Layer("notfound", "ok", ""),
          Layer("raises", "ok", "")}

SeqsUpTo(S, n) == UNION {[1..k -> S] : k \in 0..n}

\* GetCompoundStructure() / GetLayers() of a type: cs is what
\* GetCompoundStructure does, ly what GetLayers does, layers the list.
Structure(cs, ly, layers) == [cs |-> cs, ly |-> ly, layers |-> layers]
Structures(layerStates, n) ==
    {Structure("raises", "none", <<>>), Structure("none", "none", <<>>),
     Structure("ok", "raises", <<>>), Structure("ok", "none", <<>>)}
    \cup {Structure("ok", "list", ls) : ls \in SeqsUpTo(layerStates, n)}

TypeConfig(fam, tn, cat, st) == [fam |-> fam, tn |-> tn, cat |-> cat, st |-> st]

\* IN[0]: null, a list of elements, or one bare element.
\* item is the bare element when kind is "single", items the list when kind
\* is "list"; the other field is unused.
NoItem == [res |-> "unused", id |-> 0]
Selection(kind, items, item) == [kind |-> kind, items |-> items, item |-> item]
SelectionsOver(elems, n) ==
    {Selection("null", <<>>, NoItem)}
    \cup {Selection("list", s, NoItem) : s \in SeqsUpTo(elems, n)}
    \cup {Selection("single", <<>>, e) : e \in elems}

DocStates == {"ok", "null", "raises"}

VARIABLES
    host_doc,       \* what DocumentManager.Instance.CurrentDBDocument does
    host_wrap,      \* whether doc.GetElement repeats or renews its objects
    host,           \* the document's types: Types -> TypeConfig
    IN0,            \* IN[0]
    pc,             \* position in the script
    error,          \* the exception that ended the run, "" if none
    doc, elements, element_types, i, j,
    family_name, type_name, category_name, layers, idx,
    material_data,
    material_src,   \* for each record of material_data, the index in
                    \* element_types of the entry it came from
    calls,          \* host API calls made so far, in order
    OUT             \* [set, val]: whether OUT was assigned, and its value

vars == <<host_doc, host_wrap, host, IN0, pc, error, doc, elements, element_types, i, j,
          family_name, type_name, category_name, layers, idx,
          material_data, material_src, calls, OUT>>

inputs == <<host_doc, host_wrap, host, IN0>>

Call(api, on) == <<api, on>>

InitWith(hosts, sels) ==
    /\ host_doc \in DocStates
    /\ host_wrap \in WrapStates
    /\ host \in hosts
    /\ IN0 \in sels
    /\ pc = "get_doc"
    /\ error = ""
    /\ doc = "unset"
    /\ elements = <<>>
    /\ element_types = <<>>
    /\ i = 0
    /\ j = 0
    /\ family_name = ""
    /\ type_name = ""
    /\ category_name = ""
    /\ layers = <<>>
    /\ idx = 0
    /\ material_data = <<>>
    /\ material_src = <<>>
    /\ calls = <<>>
    /\ OUT = [set |-> FALSE, val |-> <<>>]

\* ------------------------------------------------------------ the script
get_parameter_value_NoDefault(param, default) ==
    IF param.st = "value" THEN param.val ELSE ""

\* Lines 34-52.
get_parameter_value(param, default) ==
    CASE param.st = "raises"  -> default
      [] param.st = "absent"  -> default
      [] param.st = "novalue" -> default
      [] OTHER                -> param.val

DocAvailable_Always(d) == TRUE

\* Line 57: the document was returned and is truthy.
DocAvailable(d) == d = "ok"

\* Lines 54-60.
GetDocument ==
    /\ pc = "get_doc"
    /\ IF DocAvailable(host_doc)
         THEN /\ doc' = "ok"
              /\ pc' = "selection"
              /\ error' = error
         ELSE /\ doc' = IF host_doc = "null" THEN "null" ELSE doc
              /\ pc' = "failed"
              /\ error' = "InvalidOperationException"
    /\ UNCHANGED <<inputs, elements, element_types, i, j, family_name,
                   type_name, category_name, layers, idx, material_data,
                   material_src, calls, OUT>>

Normalize_NoWrap(selection) == selection.items

\* Line 68.
Normalize(selection) ==
    IF selection.kind = "list" THEN selection.items ELSE <<selection.item>>

NoElements_Never(elems) == FALSE

\* Line 70: not elements.
NoElements(elems) == elems = <<>>

\* Lines 62-73.
ProcessSelection ==
    /\ pc = "selection"
    /\ IF IN0.kind = "null"
         THEN /\ pc' = "failed"
              /\ error' = "ValueError"
              /\ UNCHANGED <<elements, i>>
         ELSE /\ elements' = Normalize(IN0)
              /\ IF NoElements(elements')
                   THEN /\ pc' = "failed"
                        /\ error' = "ValueError"
                        /\ i' = i
                   ELSE /\ pc' = "resolve"
                        /\ error' = error
                        /\ i' = 1
    /\ UNCHANGED <<inputs, doc, element_types, j, family_name, type_name,
                   category_name, layers, idx, material_data, material_src,
                   calls, OUT>>

\* Line 82: element_type not in element_types.
NotIn(t, types) == \A k \in 1..Len(types) : types[k] # t

\* Line 83.
AddType(types, t) == Append(types, t)

\* Line 93: the loop over element_types moves past index n.
AfterType(types, n) == IF n < Len(types) THEN "parse" ELSE "out"

Skip_Break(types, n) == "out"

\* Lines 103 and 108: continue.
Skip(types, n) == AfterType(types, n)

OnTypeError_Escapes(types, n) == "failed"

\* Lines 126-128: the handler around one type.
OnTypeError(types, n) == AfterType(types, n)

\* Line 113: if material.
MaterialFound(layer) == layer.mat = "found"

\* Line 118: material.Name is read without an error.
NameReads(layer) == layer.nm = "ok"

\* Line 119.
LayerNumber(index) == index + 1

\* Lines 77-88, one iteration.
GetElementType ==
    /\ pc = "resolve"
    /\ LET element == elements[i]
           hasId == element.res = "id" /\ element.id # InvalidElementId
           element_type == IF hasId THEN DocGetElement(host_wrap, element.id, i)
                            ELSE NoType
       IN /\ element_types' =
                IF element_type # NoType /\ NotIn(element_type, element_types)
                  THEN AddType(element_types, element_type)
                  ELSE element_types
          /\ calls' = calls \o <<Call("GetTypeId", "")>>
                           \o (IF hasId THEN <<Call("GetElement", "")>> ELSE <<>>)
    /\ IF i < Len(elements)
         THEN /\ i' = i + 1
              /\ UNCHANGED <<pc, j>>
         ELSE /\ i' = i
              /\ j' = 1
              /\ pc' = AfterType(element_types', 0)
    /\ UNCHANGED <<inputs, error, doc, elements, family_name, type_name,
                   category_name, layers, idx, material_data, material_src, OUT>>

\* Lines 93-108, one type up to the start of its layer loop.
ParseType ==
    /\ pc = "parse"
    /\ LET element_type == element_types[j]
           h == host[element_type.ty]
           catRaises == h.cat.st = "raises"
           csRaises == ~catRaises /\ h.st.cs = "raises"
           gotCs == ~catRaises /\ h.st.cs = "ok"
           lyRaises == gotCs /\ h.st.ly = "raises"
           gotLayers == gotCs /\ h.st.ly # "raises"
           newLayers == IF h.st.ly = "list" THEN h.st.layers ELSE <<>>
           enters == gotLayers /\ newLayers # <<>>
       IN /\ family_name' = get_parameter_value(h.fam, "Unknown Family")
          /\ type_name' = get_parameter_value(h.tn, "Unknown Type")
          /\ category_name' =
                CASE catRaises -> category_name
                  [] h.cat.st = "value" -> h.cat.val
                  [] OTHER -> "Unknown Category"
          /\ layers' = IF gotLayers THEN newLayers ELSE layers
          /\ calls' = calls
                \o <<Call("get_Parameter", element_type.ty),
                     Call("get_Parameter", element_type.ty),
                     Call("Category", element_type.ty)>>
                \o (IF catRaises THEN <<>>
                      ELSE <<Call("GetCompoundStructure", element_type.ty)>>)
                \o (IF gotCs THEN <<Call("GetLayers", element_type.ty)>> ELSE <<>>)
          /\ IF enters
               THEN /\ pc' = "layer"
                    /\ idx' = 0
                    /\ j' = j
               ELSE /\ pc' = IF catRaises \/ csRaises \/ lyRaises
                                 THEN OnTypeError(element_types, j)
                                 ELSE Skip(element_types, j)
                    /\ idx' = idx
                    /\ j' = IF j < Len(element_types) THEN j + 1 ELSE j
    /\ UNCHANGED <<inputs, error, doc, elements, element_types, i,
                   material_data, material_src, OUT>>

\* Lines 114-120.
Record(family, type, category, material, number) ==
    [Family_Type |-> family, Type_Name |-> type, Category |-> category,
     Material |-> material, Layer_Number |-> number]

\* Lines 110-125, one layer.
ProcessLayer ==
    /\ pc = "layer"
    /\ LET layer == layers[idx + 1]
           element_type == element_types[j]
       IN /\ IF MaterialFound(layer) /\ NameReads(layer)
               THEN /\ material_data' = Append(material_data,
                          Record(family_name, type_name, category_name,
                                 layer.name, LayerNumber(idx)))
                    /\ material_src' = Append(material_src, j)
               ELSE UNCHANGED <<material_data, material_src>>
          /\ calls' = calls \o <<Call("MaterialId", element_type.ty)>>
    /\ IF idx + 1 < Len(layers)
         THEN /\ idx' = idx + 1
              /\ UNCHANGED <<pc, j>>
         ELSE /\ idx' = idx
              /\ pc' = AfterType(element_types, j)
              /\ j' = IF j < Len(element_types) THEN j + 1 ELSE j
    /\ UNCHANGED <<inputs, error, doc, elements, element_types, i,
                   family_name, type_name, category_name, layers, OUT>>

\* Line 130.
AssignOut ==
    /\ pc = "out"
    /\ OUT' = [set |-> TRUE, val |-> material_data]
    /\ pc' = "done"
    /\ UNCHANGED <<inputs, error, doc, elements, element_types, i, j,
                   family_name, type_name, category_name, layers, idx,
                   material_data, material_src, calls>>

Next ==
    \/ GetDocument
    \/ ProcessSelection
    \/ GetElementType
    \/ ParseType
    \/ ProcessLayer
    \/ AssignOut

\* ------------------------------------------------------- specifications
\* Types that read cleanly, with one of the given type names, and differ
\* otherwise only in their layers.
PlainConfigs(names) ==
    {TypeConfig(Param("value", "Basic Wall"), Param("value", tn),
                Param("value", "Walls"), st) :
        tn \in names,
        st \in {Structure("none", "none", <<>>)}
               \cup {Structure("ok", "list", ls) : ls \in SeqsUpTo(FoundLayers, MaxLayers)}}

\* Types that vary over the given categories and in every way a structure
\* of at most n layers of the given kinds can fail.
StructConfigs(cats, layerStates, n) ==
    {TypeConfig(Param("value", "Basic Wall"), Param("value", "Generic"), cat, st) :
        cat \in cats, st \in Structures(layerStates, n)}

\* Hosts of such types: T1 with a category that reads or raises and up to
\* MaxLayers layers of any kind, T2 with a category that reads and at most
\* one layer, whose material resolves.
StructHosts ==
    {[t \in Types |-> IF t = "T1" THEN c1 ELSE c2] :
        c1 \in StructConfigs({Param("value", "Walls"), Param("raises", "")},
                             LayerStates, MaxLayers),
        c2 \in StructConfigs({Param("value", "Walls")}, FoundLayers, 1)}

\* Hosts whose types vary in every way an attribute can be unreadable.
AttrConfigs ==
    {TypeConfig(fam, tn, cat, st) :
        fam \in ParamStates({"Basic Wall"}), tn \in ParamStates({"Generic", "Exterior"}),
        cat \in CategoryStates({"Walls"}),
        st \in {Structure("ok", "list", <<Layer("found", "ok", "Concrete")>>),
                Structure("ok", "list", <<Layer("notfound", "ok", ""),
                                          Layer("found", "ok", "Concrete")>>)}}

\* Hosts of plain types: the two types may or may not share their names.
PlainHosts ==
    {[t \in Types |-> IF t = "T1" THEN c1 ELSE c2] :
        c1 \in PlainConfigs({"Generic"}), c2 \in PlainConfigs({"Generic", "Exterior"})}

Init == InitWith(PlainHosts, SelectionsOver(Elements, MaxSel))
Spec == Init /\ [][Next]_vars

InitStruct == InitWith(StructHosts, SelectionsOver(TypedElements, MaxSelTypes))
SpecStruct == InitStruct /\ [][Next]_vars

InitAttr == InitWith([Types -> AttrConfigs], SelectionsOver(TypedElements, MaxSelTypes))
SpecAttr == InitAttr /\ [][Next]_vars

\* Fair versions: the script is one sequential pass that the interpreter
\* runs to its end, so a step that can be taken is eventually taken.
FairStruct == SpecStruct /\ WF_vars(Next)

\* -------------------------------------------------- vocabulary of claims
Terminal == {"done", "failed"}
PastSelection == {"resolve", "parse", "layer", "out", "done"}
PastResolve == {"parse", "layer", "out", "done"}

BadSelection == IN0.kind = "null" \/ (IN0.kind = "list" /\ IN0.items = <<>>)

\* The selection as a sequence, whichever way it was passed.
Selected == IF IN0.kind = "single" THEN <<IN0.item>> ELSE IN0.items

\* The type an element resolves to, "None" when it resolves to none.
TypeOfElement(e) ==
    IF e.res = "id" /\ e.id # InvalidElementId THEN HostType(e.id) ELSE "None"

RECURSIVE FirstAppearance(_)
\* The distinct types of a sequence of elements, in order of first appearance.
FirstAppearance(elems) ==
    IF elems = <<>> THEN <<>>
    ELSE LET front == FirstAppearance(SubSeq(elems, 1, Len(elems) - 1))
             t == TypeOfElement(elems[Len(elems)])
         IN IF t = "None" \/ \E k \in 1..Len(front) : front[k] = t
              THEN front ELSE Append(front, t)

\* The types of the entries of element_types, in order.
TypeNames == [k \in 1..Len(element_types) |-> element_types[k].ty]

\* A type-level error: reading the category, the structure or the layer
\* list of t raises.
TypeError(t) ==
    \/ host[t].cat.st = "raises"
    \/ host[t].st.cs = "raises"
    \/ host[t].st.cs = "ok" /\ host[t].st.ly = "raises"

\* t has no compound structure, or no layers in it.
NoStructure(t) ==
    \/ host[t].st.cs = "none"
    \/ host[t].st.cs = "ok" /\ host[t].st.ly = "none"
    \/ host[t].st.cs = "ok" /\ host[t].st.ly = "list" /\ host[t].st.layers = <<>>

\* The layer list of t in the host model, empty when t has none.
HostLayers(t) ==
    IF host[t].st.cs = "ok" /\ host[t].st.ly = "list" THEN host[t].st.layers ELSE <<>>

\* The material of layer k of t resolves: the lookup of line 112 finds it.
Resolves(t, k) == HostLayers(t)[k].mat = "found"

\* Processing layer k of t raises, at the lookup or at the read of the name,
\* and the handler of lines 123-125 skips the layer.
LayerError(t, k) ==
    \/ HostLayers(t)[k].mat = "raises"
    \/ HostLayers(t)[k].mat = "found" /\ HostLayers(t)[k].nm = "raises"

\* Layer k of t is due a record.
Emits(t, k) == Resolves(t, k) /\ ~LayerError(t, k)

Positions(n) == [k \in 1..n |-> k]

\* Positions of the layers of t that are due a record, ascending.
EmittingPositions(t) ==
    LET Keep(k) == Emits(t, k)
    IN SelectSeq(Positions(Len(HostLayers(t))), Keep)

Shown(param, default) == IF param.st = "value" THEN param.val ELSE default

\* The records one pass over t is due: none on a type-level error, else one
\* per layer whose material resolves and is read without error, ascending.
TypeRecords(t) ==
    IF TypeError(t) THEN <<>>
    ELSE LET ps == EmittingPositions(t)
         IN [n \in 1..Len(ps) |->
               [Family_Type |-> Shown(host[t].fam, "Unknown Family"),
                Type_Name |-> Shown(host[t].tn, "Unknown Type"),
                Category |-> Shown(host[t].cat, "Unknown Category"),
                Material |-> HostLayers(t)[ps[n]].name,
                Layer_Number |-> ps[n]]]

RECURSIVE Concat(_)
\* The records due to a sequence of types, type after type.
Concat(types) ==
    IF types = <<>> THEN <<>>
    ELSE TypeRecords(Head(types)) \o Concat(Tail(types))

\* The type the n-th record of material_data came from.
SourceType(n) == element_types[material_src[n]].ty

\* The records of material_data that came from type t, in output order.
OutputOf(t) ==
    LET Mine(n) == SourceType(n) = t
        ps == SelectSeq(Positions(Len(material_data)), Mine)
    IN [n \in 1..Len(ps) |-> material_data[ps[n]]]

\* The records of material_data that came from the p-th entry of
\* element_types, in output order.
OutputOfPass(p) ==
    LET Mine(n) == material_src[n] = p
        ps == SelectSeq(Positions(Len(material_data)), Mine)
    IN [n \in 1..Len(ps) |-> material_data[ps[n]]]

\* The extraction loop is through with the p-th entry of element_types.
PassOver(p) == pc \in {"out", "done"} \/ (pc \in {"parse", "layer"} /\ j > p)

\* How many times the extraction loop started on t.
Visits(t) ==
    Cardinality({k \in 1..Len(calls) : calls[k] = Call("Category", t)})

\* How many entries of element_types are t.
Occurrences(t) ==
    Cardinality({k \in 1..Len(element_types) : element_types[k].ty = t})

InTypes(t) == Occurrences(t) >= 1

IsPrefix(s, t) == Len(s) <= Len(t) /\ SubSeq(t, 1, Len(s)) = s

\* ---------------------------------------------------------------- claims
\* C1 as stated: for every null or empty selection the run fails with the
\* selection error (ValueError) and never assigns OUT; for every other
\* selection the validation step does not fail.
C1_AsStated ==
    /\ BadSelection =>
         /\ pc \notin PastSelection
         /\ ~OUT.set
         /\ pc = "failed" => error = "ValueError"
    /\ ~BadSelection => ~(pc = "failed" /\ error = "ValueError")

\* C1 amended: when the current document is available, a null or empty
\* selection makes the run fail with ValueError; when it is not, the run has
\* already failed with InvalidOperationException before the selection is
\* read.  Either way OUT is never assigned, and for every other selection
\* the validation step does not fail.
C1_SelectionValidation ==
    /\ BadSelection =>
         /\ pc \notin PastSelection
         /\ ~OUT.set
         /\ pc = "failed" =>
              error = IF host_doc = "ok" THEN "ValueError"
                      ELSE "InvalidOperationException"
    /\ ~BadSelection =>
         /\ ~(pc = "failed" /\ error = "ValueError")
         /\ host_doc = "ok" => pc # "failed"

C1_Witness ==
    /\ pc = "failed" /\ error = "ValueError"
    /\ IN0.kind = "list" /\ IN0.items = <<>>

\* C2: element_types never holds the same type twice; and when all N >= 1
\* selected elements resolve to one type T, element_types is exactly <<T>>
\* once the resolution loop is over, the extraction loop starts on T once,
\* and the output is T's records once.
C2_Deduplication ==
    /\ \A a, b \in 1..Len(element_types) :
         a # b => element_types[a].ty # element_types[b].ty
    /\ \A t \in Types :
         (Selected # <<>> /\ \A k \in 1..Len(Selected) : TypeOfElement(Selected[k]) = t) =>
            /\ pc \in PastResolve => TypeNames = <<t>>
            /\ Visits(t) <= 1
            /\ pc \in {"out", "done"} =>
                 /\ Visits(t) = 1
                 /\ material_data = TypeRecords(t)
            /\ pc = "done" => OUT.val = TypeRecords(t)

\* C3: a resolved type processed without a type-level or layer error, with
\* N >= 1 layers that all resolve, has at every moment records numbered 1, 2, ...
\* without gaps, each carrying the material of the layer of that number, and
\* has exactly N of them, numbered 1..N, once the extraction is over.
C3_CompleteType ==
    \A t \in Types :
      (/\ InTypes(t) /\ ~TypeError(t)
       /\ Len(HostLayers(t)) >= 1
       /\ \A k \in 1..Len(HostLayers(t)) : Resolves(t, k) /\ ~LayerError(t, k)) =>
         LET out == OutputOf(t) IN
         /\ Len(out) <= Len(HostLayers(t))
         /\ \A n \in 1..Len(out) :
              /\ out[n].Layer_Number = n
              /\ out[n].Material = HostLayers(t)[n].name
         /\ pc \in {"out", "done"} => Len(out) = Len(HostLayers(t))
         /\ pc = "done" => OUT.val = material_data

\* The records in out that carry layer number k.
RecordsAt(out, k) == {n \in 1..Len(out) : out[n].Layer_Number = k}

\* C4: for every resolved type with N layers whose layer loop runs, a
\* layer whose material fails to resolve has no record and no placeholder,
\* every other layer whose material resolves and is read without error has
\* exactly one record, carrying its own position, and the type has at most
\* N records.
C4_SkipMissingMaterial ==
    \A t \in Types :
      (InTypes(t) /\ HostLayers(t) # <<>> /\ ~TypeError(t)) =>
         LET out == OutputOf(t) IN
         /\ \A n \in 1..Len(out) : out[n].Layer_Number \in 1..Len(HostLayers(t))
         /\ \A k \in 1..Len(HostLayers(t)) :
              /\ ~Resolves(t, k) => RecordsAt(out, k) = {}
              /\ Emits(t, k) =>
                   /\ Cardinality(RecordsAt(out, k)) <= 1
                   /\ pc \in {"out", "done"} => Cardinality(RecordsAt(out, k)) = 1
         /\ Len(out) <= Len(HostLayers(t))
         /\ pc = "done" => OUT.val = material_data

Unreadable(param) == param.st \in {"absent", "novalue", "raises"}

\* C5: in every record, a family name, type name or category the type does
\* not give reads as its documented default, never as an empty string; and
\* an unreadable family or type name costs no record: every pass over a
\* type whose category reads has all the records its layers are due.
C5_AttributeFallback ==
    /\ \A n \in 1..Len(material_data) :
         LET r == material_data[n]
             h == host[SourceType(n)]
         IN /\ Unreadable(h.fam) => r.Family_Type = "Unknown Family"
            /\ Unreadable(h.tn) => r.Type_Name = "Unknown Type"
            /\ Unreadable(h.cat) => r.Category = "Unknown Category"
            /\ r.Family_Type # "" /\ r.Type_Name # "" /\ r.Category # ""
    /\ \A p \in 1..Len(element_types) :
         (PassOver(p) /\ host[element_types[p].ty].cat.st # "raises") =>
            Len(OutputOfPass(p)) = Len(EmittingPositions(element_types[p].ty))
    /\ pc = "done" => OUT.val = material_data

C5_Witness ==
    /\ pc = "done"
    /\ \E n \in 1..Len(OUT.val) :
         /\ host[SourceType(n)].fam.st = "raises"
         /\ host[SourceType(n)].tn.st = "novalue"
         /\ host[SourceType(n)].cat.st = "absent"
         /\ OUT.val[n].Family_Type = "Unknown Family"
         /\ OUT.val[n].Type_Name = "Unknown Type"
         /\ OUT.val[n].Category = "Unknown Category"

\* Every entry of element_types after the p-th was processed and has the
\* records it is due.
LaterServed(p) ==
    /\ \A q \in (p + 1)..Len(element_types) :
         OutputOfPass(q) = TypeRecords(element_types[q].ty)
    /\ \A t \in Types : Visits(t) = Occurrences(t)

\* C6: a resolved type without compound structure or without layers never
\* has a record and never fails the run; processing it leaves the output as
\* it was and moves to the next type; once the extraction is over every
\* type after it was processed and has its records; and the run ends with
\* OUT assigned.
C6_NoStructureSkip ==
    /\ [](\A p \in 1..Len(element_types) :
            NoStructure(element_types[p].ty) =>
               /\ OutputOf(element_types[p].ty) = <<>>
               /\ pc # "failed"
               /\ pc \in {"out", "done"} => LaterServed(p)
               /\ pc = "done" => OUT.set /\ OUT.val = material_data)
    /\ [][(pc = "parse" /\ NoStructure(element_types[j].ty)) =>
            /\ material_data' = material_data
            /\ IF j < Len(element_types)
                 THEN pc' = "parse" /\ j' = j + 1
                 ELSE pc' = "out"]_vars
    /\ (\E t \in Types : InTypes(t) /\ NoStructure(t)) ~> (pc = "done" /\ OUT.set)

C6_Witness ==
    /\ pc = "done"
    /\ TypeNames = <<"T1", "T2">>
    /\ NoStructure("T1") /\ ~TypeError("T1")
    /\ Len(TypeRecords("T2")) >= 1
    /\ OUT.val = TypeRecords("T2")

\* C7: a bare element e and the one-element list [e] give the same outcome:
\* in both cases elements is <<e>> after normalization, the run fails only
\* when the document is unavailable, and its output is what the sequence
\* <<e>> is due.
C7_SingleElementWrap ==
    (IN0.kind \in {"single", "list"} /\ Len(Selected) = 1) =>
       /\ pc \in PastSelection => elements = Selected
       /\ pc = "failed" => host_doc # "ok" /\ error = "InvalidOperationException"
       /\ host_doc = "ok" => pc # "failed"
       /\ pc = "done" => OUT.set /\ OUT.val = Concat(FirstAppearance(Selected))

C7_Witness ==
    /\ pc = "done"
    /\ IN0.kind = "single"
    /\ Len(OUT.val) >= 1

\* Position of t in a sequence of types that holds it.
IndexIn(types, t) == CHOOSE k \in 1..Len(types) : types[k] = t

\* C8: the output is the records of the distinct resolved types, type after
\* type in order of first appearance in the selection, each type's records
\* in ascending layer position; records of two types are never interleaved
\* nor out of that order, and what has been appended stays where it is: the
\* records so far are always the beginning of that final sequence.
C8_OutputOrdering ==
    /\ pc \in PastResolve => TypeNames = FirstAppearance(Selected)
    /\ \A a, b \in 1..Len(material_src) :
         a < b => IndexIn(FirstAppearance(Selected), SourceType(a))
                    <= IndexIn(FirstAppearance(Selected), SourceType(b))
    /\ \A a, b \in 1..Len(material_src) :
         (a < b /\ SourceType(a) = SourceType(b)) =>
            material_data[a].Layer_Number < material_data[b].Layer_Number
    /\ IsPrefix(material_data, Concat(FirstAppearance(Selected)))
    /\ pc \in {"out", "done"} => material_data = Concat(FirstAppearance(Selected))
    /\ pc = "done" => OUT.set /\ OUT.val = material_data

Fatal == host_doc # "ok" \/ BadSelection

\* C9: the selection is read only with the document in hand, and no host
\* lookup, type or record exists before both checks have passed; under a
\* fatal condition the run ends failed, with no lookup made and OUT never
\* assigned; OUT is assigned only at the end, to the full output; and every
\* run ends, failed exactly under a fatal condition and done otherwise.
C9_FatalFirst ==
    /\ [](pc = "selection" => host_doc = "ok" /\ doc = "ok")
    /\ [](pc \in PastSelection =>
            /\ host_doc = "ok" /\ doc = "ok"
            /\ ~BadSelection /\ elements = Selected)
    /\ [](pc \notin PastSelection =>
            /\ calls = <<>> /\ element_types = <<>>
            /\ material_data = <<>> /\ ~OUT.set)
    /\ [](Fatal => pc \notin PastSelection)
    /\ [](pc = "failed" =>
            /\ Fatal
            /\ error = IF host_doc # "ok" THEN "InvalidOperationException"
                       ELSE "ValueError")
    /\ [](OUT.set =>
            /\ pc = "done"
            /\ OUT.val = material_data
            /\ OUT.val = Concat(TypeNames))
    /\ [](pc \notin Terminal => ENABLED Next)
    /\ [](pc \in Terminal => ~ENABLED Next)
    /\ (Fatal ~> pc = "failed")
    /\ (~Fatal ~> (pc = "done" /\ OUT.set))

C9_Witness ==
    /\ pc = "failed"
    /\ host_doc = "null"
    /\ IN0.kind = "list" /\ Len(IN0.items) >= 2
    /\ calls = <<>>

\* C10: a type-level error on a resolved type never fails the run and gives
\* the type no record; the step that meets it leaves the output as it was
\* and moves to the next type; once the extraction is over every type after
\* it was processed and has its records; and the run ends with OUT assigned.
C10_TypeFailureIsolation ==
    /\ [](\A p \in 1..Len(element_types) :
            TypeError(element_types[p].ty) =>
               /\ OutputOf(element_types[p].ty) = <<>>
               /\ pc # "failed" /\ error = ""
               /\ pc \in {"out", "done"} => LaterServed(p)
               /\ pc = "done" => OUT.set /\ OUT.val = material_data)
    /\ [][(pc = "parse" /\ TypeError(element_types[j].ty)) =>
            /\ material_data' = material_data
            /\ IF j < Len(element_types)
                 THEN pc' = "parse" /\ j' = j + 1
                 ELSE pc' = "out"]_vars
    /\ (\E t \in Types : InTypes(t) /\ TypeError(t)) ~> (pc = "done" /\ OUT.set)

C10_Witness ==
    /\ pc = "done"
    /\ TypeNames = <<"T1", "T2">>
    /\ TypeError("T1") /\ HostLayers("T1") # <<>>
    /\ Len(TypeRecords("T2")) >= 1
    /\ OUT.val = TypeRecords("T2")
====
